---- MODULE Spec2Model ----
(***************************************************************************)
(* Model of the recipe book service of src/main.py: a table of Recipe     *)
(* rows and three HTTP handlers (GET /recipes, GET /recipes/{id},          *)
(* POST /recipes).  Each request runs in its own AsyncSession; a handler   *)
(* is split into one step per database round trip, so that requests of     *)
(* different clients interleave at the awaits, as they do in the code.     *)
(***************************************************************************)
EXTENDS Integers, Sequences, FiniteSets

(* ------------------------------ bounds -------------------------------- *)

\* rows the table may hold
MaxRecipes == 3
\* requests that change the table (creates and found detail fetches) in one run
MaxRequests == 4
\* requests in flight at the same time
NumProcs == 2

(* ------------------------- program constants -------------------------- *)

\* RecipeCreate.name: Field(min_length=1, max_length=255)
MinNameLength == 1
MaxNameLength == 255
HTTP_404_NOT_FOUND == 404
HTTP_201_CREATED == 201

(* ------------------------------ inputs -------------------------------- *)

Procs == 1..NumProcs

Repeat(c, n) == [i \in 1..n |-> c]

\* names: empty, a short one, and the shortest that is too long
Names == {<<>>, <<"a">>, Repeat("x", MaxNameLength + 1)}
CookingTimes == {-1, 0, 10, 20}
Ingredients == {"eggs, milk"}
Descriptions == {"omelette"}

\* the bodies POST /recipes receives (well typed; the fields all present)
RecipeInputs ==
    [name : Names, cooking_time : CookingTimes,
     ingredients : Ingredients, description : Descriptions]

\* the ids GET /recipes/{recipe_id} is asked for: every id a row can have and one more
RecipeIds == 1..(MaxRecipes + 1)

None == [id |-> 0]
NoRequest == [kind |-> "none", arg |-> 0]
NoResponse == [kind |-> "none", status |-> 0, body |-> <<>>]

(* ------------------------------ state --------------------------------- *)

VARIABLES
    recipes,    \* the recipes table: a sequence of rows in insertion order
    commits,    \* commits[i]: detail fetches of row i whose db.commit() is done
    pc,         \* pc[p]: where request slot p stands in its handler
    recipe,     \* recipe[p]: the Recipe object the session of p holds
    req,        \* req[p]: the RecipeCreate body the handler of p was called with
    request,    \* the request the last step received (NoRequest when it continued one)
    response    \* the response the last step sent (NoResponse when it sent none)

vars == <<recipes, commits, pc, recipe, req, request, response>>

(* --------------------------- pure helpers ----------------------------- *)

\* a plausible slip: cooking_time declared ge=0 instead of gt=0
ValidateNonNegative(input) ==
    /\ Len(input.name) >= MinNameLength
    /\ Len(input.name) <= MaxNameLength
    /\ input.cooking_time >= 0

\* RecipeCreate: name 1..255 characters, cooking_time > 0
Validate(input) ==
    /\ Len(input.name) >= MinNameLength
    /\ Len(input.name) <= MaxNameLength
    /\ input.cooking_time > 0

\* a plausible slip: the id is not generated, every row gets the same one
NextIdFixed(rows) == 1

\* id = Column(Integer, primary_key=True): the store assigns max(id) + 1
NextId(rows) ==
    IF rows = <<>> THEN 1
    ELSE (CHOOSE m \in {rows[i].id : i \in DOMAIN rows} :
            \A i \in DOMAIN rows : rows[i].id <= m) + 1

\* a plausible slip: ingredients and description passed to each other's keyword
NewRecipeSwapped(input, id) ==
    [id |-> id, name |-> input.name, views |-> 0,
     cooking_time |-> input.cooking_time,
     ingredients |-> input.description, description |-> input.ingredients]

\* Recipe(name=..., cooking_time=..., ingredients=..., description=..., views=0)
NewRecipe(input, id) ==
    [id |-> id, name |-> input.name, views |-> 0,
     cooking_time |-> input.cooking_time,
     ingredients |-> input.ingredients, description |-> input.description]

\* a plausible slip: the WHERE clause left out, the first row of the table is taken
ScalarFirst(rows, recipe_id) ==
    IF rows # <<>> THEN rows[1] ELSE None

\* select(Recipe).where(Recipe.id == recipe_id) ... scalar_one_or_none()
ScalarOneOrNone(rows, recipe_id) ==
    IF \E i \in DOMAIN rows : rows[i].id = recipe_id
    THEN rows[CHOOSE i \in DOMAIN rows : rows[i].id = recipe_id]
    ELSE None

\* a plausible slip: views ordered ascending
PrecedesViewsAscending(a, b) ==
    \/ a.views < b.views
    \/ a.views = b.views /\ a.cooking_time <= b.cooking_time

\* order_by(Recipe.views.desc(), Recipe.cooking_time.asc()): a may come before b
Precedes(a, b) ==
    \/ a.views > b.views
    \/ a.views = b.views /\ a.cooking_time <= b.cooking_time

\* a plausible slip: only the first row of the result is taken
OrderByFirstOnly(rows) ==
    LET n == Len(rows)
        first == {i \in 1..n : \A j \in 1..n :
                     \/ rows[i].views > rows[j].views
                     \/ rows[i].views = rows[j].views
                           /\ rows[i].cooking_time <= rows[j].cooking_time}
    IN  IF n = 0 THEN {<<>>} ELSE {<<rows[i]>> : i \in first}

\* the orders in which the store may hand out the rows under that ORDER BY
\* (rows that tie on both keys come in either order)
OrderBy(rows) ==
    LET n == Len(rows)
        perms == {f \in [1..n -> 1..n] : \A i, j \in 1..n : f[i] = f[j] => i = j}
        sorted == {f \in perms : \A i \in 1..n, j \in 1..n :
                                    i < j => Precedes(rows[f[i]], rows[f[j]])}
    IN  {[i \in 1..n |-> rows[f[i]]] : f \in sorted}

RecipeListItem(r) ==
    [name |-> r.name, views |-> r.views, cooking_time |-> r.cooking_time]

RecipeDetail(r) ==
    [name |-> r.name, cooking_time |-> r.cooking_time,
     ingredients |-> r.ingredients, description |-> r.description]

\* a plausible slip: the increment left out
IncrementViewsSkipped(r) == r

\* recipe.views += 1 on the object the session loaded
IncrementViews(r) == [r EXCEPT !.views = @ + 1]

\* what an increment done by the store would be: UPDATE ... SET views = views + 1
FlushAtomic(rows, r) ==
    [i \in DOMAIN rows |->
        IF rows[i].id = r.id THEN [rows[i] EXCEPT !.views = @ + 1] ELSE rows[i]]

\* a plausible slip: the UPDATE without its WHERE clause
FlushEveryRow(rows, r) ==
    [i \in DOMAIN rows |-> [rows[i] EXCEPT !.views = r.views]]

\* db.commit(): UPDATE recipes SET views = <the object's views> WHERE id = <its id>
Flush(rows, r) ==
    [i \in DOMAIN rows |->
        IF rows[i].id = r.id THEN [rows[i] EXCEPT !.views = r.views] ELSE rows[i]]

RECURSIVE Sum(_)
Sum(s) == IF s = <<>> THEN 0 ELSE Head(s) + Sum(Tail(s))

\* the requests that have changed the table or are about to: rows created, detail
\* fetches committed, detail fetches that have read their row
Started ==
    Len(recipes) + Sum(commits) + Cardinality({p \in Procs : pc[p] = "selected"})

(* ------------------------------ actions ------------------------------- *)

Init ==
    /\ recipes = <<>>
    /\ commits = <<>>
    /\ pc = [p \in Procs |-> "idle"]
    /\ recipe = [p \in Procs |-> None]
    /\ req = [p \in Procs |-> None]
    /\ request = NoRequest
    /\ response = NoResponse

\* GET /recipes
GetRecipes(p) ==
    /\ pc[p] = "idle"
    /\ request' = [kind |-> "list", arg |-> 0]
    /\ \E rows \in OrderBy(recipes) :
          response' = [kind |-> "list", status |-> 200,
                       body |-> [i \in DOMAIN rows |-> RecipeListItem(rows[i])]]
    /\ UNCHANGED <<recipes, commits, pc, recipe, req>>

\* GET /recipes/{recipe_id}: the SELECT finds no row
GetRecipeDetailNotFound(p, recipe_id) ==
    /\ pc[p] = "idle"
    /\ request' = [kind |-> "detail", arg |-> recipe_id]
    /\ ScalarOneOrNone(recipes, recipe_id) = None
    /\ response' = [kind |-> "error", status |-> HTTP_404_NOT_FOUND, body |-> <<>>]
    /\ UNCHANGED <<recipes, commits, pc, recipe, req>>

\* GET /recipes/{recipe_id}: the SELECT loads the row into the session
GetRecipeDetailSelect(p, recipe_id) ==
    /\ pc[p] = "idle"
    /\ request' = [kind |-> "detail", arg |-> recipe_id]
    /\ ScalarOneOrNone(recipes, recipe_id) # None
    /\ Started < MaxRequests
    /\ recipe' = [recipe EXCEPT ![p] = ScalarOneOrNone(recipes, recipe_id)]
    /\ pc' = [pc EXCEPT ![p] = "selected"]
    /\ response' = NoResponse
    /\ UNCHANGED <<recipes, commits, req>>

\* recipe.views += 1; await db.commit()
GetRecipeDetailCommit(p) ==
    /\ pc[p] = "selected"
    /\ request' = NoRequest
    /\ recipe' = [recipe EXCEPT ![p] = IncrementViews(recipe[p])]
    /\ recipes' = Flush(recipes, recipe'[p])
    /\ commits' = [commits EXCEPT ![recipe[p].id] = @ + 1]
    /\ pc' = [pc EXCEPT ![p] = "committed"]
    /\ response' = NoResponse
    /\ UNCHANGED req

\* return RecipeDetail(...) built from the session's object
GetRecipeDetailReturn(p) ==
    /\ pc[p] = "committed"
    /\ request' = NoRequest
    /\ response' = [kind |-> "detail", status |-> 200, body |-> RecipeDetail(recipe[p])]
    /\ pc' = [pc EXCEPT ![p] = "idle"]
    /\ recipe' = [recipe EXCEPT ![p] = None]
    /\ UNCHANGED <<recipes, commits, req>>

\* POST /recipes: the body fails RecipeCreate's validation, the handler is not run
CreateRecipeInvalid(p, input) ==
    /\ pc[p] = "idle"
    /\ request' = [kind |-> "create", arg |-> input]
    /\ ~Validate(input)
    /\ response' = [kind |-> "error", status |-> 422, body |-> <<>>]
    /\ UNCHANGED <<recipes, commits, pc, recipe, req>>

\* POST /recipes: db.add(new_recipe); await db.commit()
CreateRecipeCommit(p, input) ==
    /\ pc[p] = "idle"
    /\ request' = [kind |-> "create", arg |-> input]
    /\ Validate(input)
    /\ Len(recipes) < MaxRecipes
    /\ Started < MaxRequests
    /\ LET new_recipe == NewRecipe(input, NextId(recipes))
       IN  /\ recipes' = Append(recipes, new_recipe)
           /\ recipe' = [recipe EXCEPT ![p] = new_recipe]
    /\ commits' = Append(commits, 0)
    /\ req' = [req EXCEPT ![p] = input]
    /\ pc' = [pc EXCEPT ![p] = "created"]
    /\ response' = NoResponse

\* await db.refresh(new_recipe); return RecipeDetail(...)
CreateRecipeRefresh(p) ==
    /\ pc[p] = "created"
    /\ request' = NoRequest
    /\ LET refreshed == ScalarOneOrNone(recipes, recipe[p].id)
       IN  response' = [kind |-> "created", status |-> HTTP_201_CREATED,
                        body |-> RecipeDetail(refreshed)]
    /\ pc' = [pc EXCEPT ![p] = "idle"]
    /\ recipe' = [recipe EXCEPT ![p] = None]
    /\ req' = [req EXCEPT ![p] = None]
    /\ UNCHANGED <<recipes, commits>>

Next ==
    \E p \in Procs :
        \/ GetRecipes(p)
        \/ \E recipe_id \in RecipeIds : GetRecipeDetailNotFound(p, recipe_id)
        \/ \E recipe_id \in RecipeIds : GetRecipeDetailSelect(p, recipe_id)
        \/ GetRecipeDetailCommit(p)
        \/ GetRecipeDetailReturn(p)
        \/ \E input \in RecipeInputs : CreateRecipeInvalid(p, input)
        \/ \E input \in RecipeInputs : CreateRecipeCommit(p, input)
        \/ CreateRecipeRefresh(p)

Spec == Init /\ [][Next]_vars

(* ------------------------- checked properties ------------------------- *)

Ids(rows) == {rows[i].id : i \in DOMAIN rows}

\* how many entries of the sequence s equal x
Count(s, x) == Cardinality({i \in DOMAIN s : s[i] = x})

\* the slot p has just run the step that takes it from a to b
Moved(p, a, b) == pc[p] = a /\ pc'[p] = b

\* C1: the list GET /recipes returns is ordered by views descending and, among equal
\* views, by cooking_time ascending, for every pair of adjacent entries.
C1_ListSorted ==
    response.kind = "list" =>
        \A i \in 1..(Len(response.body) - 1) :
            /\ response.body[i].views >= response.body[i + 1].views
            /\ response.body[i].views = response.body[i + 1].views
                  => response.body[i].cooking_time <= response.body[i + 1].cooking_time

\* a list of three rows: the viewed row first although it cooks longer than the next,
\* then two rows that tie on views, the quicker one first
C1_Witness ==
    /\ response.kind = "list"
    /\ Len(response.body) = 3
    /\ response.body[1].views > response.body[2].views
    /\ response.body[1].cooking_time > response.body[2].cooking_time
    /\ response.body[2].views = response.body[3].views
    /\ response.body[2].cooking_time < response.body[3].cooking_time

\* C2: a detail fetch of an existing id reads the row as it is stored when the call
\* starts, its commit leaves the stored views at exactly that value plus 1, and the
\* response is sent only by a request whose commit is done.
C2_IncrementByOne ==
    [][\A p \in Procs :
        /\ Moved(p, "idle", "selected") =>
              \E i \in DOMAIN recipes :
                  /\ recipes[i].id = request'.arg
                  /\ recipe'[p] = recipes[i]
        /\ Moved(p, "selected", "committed") =>
              \E i \in DOMAIN recipes :
                  /\ recipes[i].id = recipe[p].id
                  /\ recipes'[i].views = recipe[p].views + 1
        /\ response'.kind = "detail" =>
              \E q \in Procs : Moved(q, "committed", "idle")]_vars

\* the second of two fetches in sequence has committed: the row stands at 2 views
C2_Witness ==
    \E p \in Procs :
        /\ pc[p] = "committed"
        /\ commits[recipe[p].id] = 2
        /\ \E i \in DOMAIN recipes :
              recipes[i].id = recipe[p].id /\ recipes[i].views = 2

\* C3: a detail fetch of an id no row has is answered 404 and changes nothing in the
\* table.
C3_NotFoundNoMutation ==
    [][(request'.kind = "detail" /\ request'.arg \notin Ids(recipes)) =>
          /\ response'.status = 404
          /\ recipes' = recipes
          /\ commits' = commits]_vars

\* a 404 for an id the table does not hold, with rows (one of them viewed) in the table
C3_Witness ==
    /\ request.kind = "detail"
    /\ request.arg \notin Ids(recipes)
    /\ response.status = 404
    /\ \E i \in DOMAIN recipes : recipes[i].views > 0

\* C4: a create whose cooking_time is <= 0, whose name is empty or whose name is longer
\* than 255 characters is answered with a validation error and stores nothing.
C4_InvalidRejected ==
    [][(/\ request'.kind = "create"
        /\ \/ request'.arg.cooking_time <= 0
           \/ Len(request'.arg.name) = 0
           \/ Len(request'.arg.name) > 255) =>
          /\ response'.status = 422
          /\ recipes' = recipes]_vars

\* a rejected create with cooking_time 0 and an acceptable name, the table not empty
C4_Witness ==
    /\ request.kind = "create"
    /\ request.arg.cooking_time = 0
    /\ Len(request.arg.name) = 1
    /\ response.status = 422
    /\ recipes # <<>>

\* C5: a successful create appends exactly one row, with an id no row had, the four
\* fields of the input and 0 views, and leaves the rows before it as they were; its
\* response is those four fields, equal to the input, and no views.
C5_CreateAddsOneRow ==
    [][\A p \in Procs :
        /\ Moved(p, "idle", "created") =>
              /\ Len(recipes') = Len(recipes) + 1
              /\ SubSeq(recipes', 1, Len(recipes)) = recipes
              /\ req'[p] = request'.arg
              /\ LET new == recipes'[Len(recipes')]
                 IN  /\ new.id \notin Ids(recipes)
                     /\ new.name = request'.arg.name
                     /\ new.cooking_time = request'.arg.cooking_time
                     /\ new.ingredients = request'.arg.ingredients
                     /\ new.description = request'.arg.description
                     /\ new.views = 0
        /\ Moved(p, "created", "idle") =>
              /\ response'.status = 201
              /\ response'.body =
                    [name |-> req[p].name, cooking_time |-> req[p].cooking_time,
                     ingredients |-> req[p].ingredients,
                     description |-> req[p].description]
              /\ recipes' = recipes]_vars

\* the response to the create of a second row, the first row already viewed
C5_Witness ==
    /\ response.kind = "created"
    /\ Len(recipes) = 2
    /\ recipes[1].views > 0
    /\ recipes[2].views = 0

\* C6: two overlapping detail fetches of one id that read the same views value lose an
\* update: once both have committed, the stored views is below the number of
\* committed fetches of that id.
C6_LostUpdate ==
    \A p, q \in Procs :
        (/\ p # q
         /\ pc[p] = "committed" /\ pc[q] = "committed"
         /\ recipe[p].id = recipe[q].id
         /\ recipe[p].views = recipe[q].views) =>
            \E i \in DOMAIN recipes :
                /\ recipes[i].id = recipe[p].id
                /\ recipes[i].views < commits[recipes[i].id]

\* both fetches read 0 views and have committed, and the row stands at 1 view
C6_Witness ==
    \E p, q \in Procs :
        /\ p # q
        /\ pc[p] = "committed" /\ pc[q] = "committed"
        /\ recipe[p].id = recipe[q].id
        /\ recipe[p].views = 1 /\ recipe[q].views = 1
        /\ commits[recipe[p].id] = 2
        /\ \E i \in DOMAIN recipes :
              recipes[i].id = recipe[p].id /\ recipes[i].views = 1

\* C7: no row is ever removed, of a stored row only views ever changes, and it changes
\* only in the commit of a detail fetch of that row's id; a row no detail fetch has
\* committed on has 0 views.
C7_Frame ==
    /\ [][/\ Len(recipes') >= Len(recipes)
          /\ \A i \in DOMAIN recipes :
                /\ recipes'[i] = [recipes[i] EXCEPT !.views = recipes'[i].views]
                /\ recipes'[i].views # recipes[i].views =>
                      \E p \in Procs :
                          /\ Moved(p, "selected", "committed")
                          /\ recipe[p].id = recipes[i].id]_vars
    /\ [](\A i \in DOMAIN recipes : commits[recipes[i].id] = 0 => recipes[i].views = 0)

\* two rows: one fetched twice, the other never fetched and still at 0 views
C7_Witness ==
    \E i, j \in DOMAIN recipes :
        /\ recipes[i].views = 2
        /\ commits[recipes[j].id] = 0
        /\ recipes[j].views = 0

\* C8: the list holds one {name, views, cooking_time} entry for every stored row and
\* nothing else (the empty list on an empty table), and listing changes no row.
C8_ListIsPermutation ==
    /\ [](response.kind = "list" =>
            /\ Len(response.body) = Len(recipes)
            /\ \A i \in DOMAIN recipes :
                  LET item == [name |-> recipes[i].name, views |-> recipes[i].views,
                               cooking_time |-> recipes[i].cooking_time]
                  IN  Count(response.body, item) =
                          Cardinality({j \in DOMAIN recipes :
                              /\ recipes[j].name = item.name
                              /\ recipes[j].views = item.views
                              /\ recipes[j].cooking_time = item.cooking_time}))
    /\ [][response'.kind = "list" => recipes' = recipes /\ commits' = commits]_vars

\* a list of two rows that come in the other order than they were stored in
C8_Witness ==
    /\ response.kind = "list"
    /\ Len(recipes) = 2
    /\ response.body[1].cooking_time = recipes[2].cooking_time
    /\ response.body[1].cooking_time # recipes[1].cooking_time
    /\ response.body[2].views = recipes[1].views

\* C9: every stored row has views >= 0 and cooking_time > 0, and no two rows share
\* an id.
C9_RowInvariants ==
    /\ \A i \in DOMAIN recipes : recipes[i].views >= 0 /\ recipes[i].cooking_time > 0
    /\ \A i, j \in DOMAIN recipes : recipes[i].id = recipes[j].id => i = j

\* two rows, one of them viewed
C9_Witness ==
    /\ Len(recipes) = 2
    /\ \E i \in DOMAIN recipes : recipes[i].views > 0

\* C10: a row's stored views never decreases from one state to the next and never
\* exceeds the number of detail fetches of its id that have committed.
C10_ViewsMonotone ==
    /\ [][\A i \in DOMAIN recipes : recipes'[i].views >= recipes[i].views]_vars
    /\ [](\A i \in DOMAIN recipes : recipes[i].views <= commits[recipes[i].id])

====
